---- MODULE Spec2Model ----
(***************************************************************************)
(* A model of nano-banana-image-edit: the request-configuration builder    *)
(* (gemini_config.py), the temperature schedule, the path resolver and     *)
(* save_images (shared.py) and the variation loop of run_extraction        *)
(* (extract_clothes.py).                                                   *)
(*                                                                         *)
(* Numbers.  A float is modelled as an integer count of 0.00001 (so 0.20   *)
(* is 20000 and 0.35 is 35000).  round(x, 4) therefore maps onto the       *)
(* multiples of 10; a value that the arithmetic yields as a fraction is    *)
(* carried as numerator and denominator until it is rounded.  A decimal    *)
(* tie of round() is decided by the binary representation of the float,    *)
(* which this resolution cannot see: it is a choice the caller of Round4   *)
(* supplies, and every specification leaves it open.                       *)
(*                                                                         *)
(* Strings.  Text that the code takes apart (prompts, the output base      *)
(* name, the extension) is a sequence of one-character strings; a path     *)
(* that is only stored and compared is a TLA+ string.  An optional         *)
(* argument is <<>> for None and <<v>> for the value v.                    *)
(***************************************************************************)
EXTENDS Integers, Sequences, FiniteSets, TLC

VARIABLES
    bArgs,      \* arguments of the last build_gemini_edit_config call
    bResult,    \* what that call gave: a config, or the exception raised
    sArgs,      \* arguments of the last generate_temperature_schedule call
    sResult,    \* the schedule it returned
    rArgs,      \* arguments of the last resolve_reference_and_target_paths call and the disk it saw
    rResult,    \* what that call gave: the paths, or the exception raised
    \* one run of main() of extract_clothes.py
    pc,             \* where the run stands
    settings,       \* the configuration constants and the files, key and prompts found
    texts,          \* system_prompt_text and prompt_text once loaded
    paths,          \* target_path and supporting_paths once resolved
    temperatures,   \* the schedule of the run
    index,          \* the variation the loop is at, from 1
    config,         \* the config of the current variation
    user_content,   \* the content built for the current variation
    response,       \* the response received for the current variation
    saved_paths,    \* the paths collected so far
    requests,       \* every generate_content call made, in order
    written,        \* every file write made, in order
    trace,          \* the calls of the loop made so far: builds, requests, saves
    clock,          \* the wall clock, in seconds
    error           \* the exception that ended the run, if any

callVars == <<bArgs, bResult, sArgs, sResult, rArgs, rResult>>
runVars == <<pc, settings, texts, paths, temperatures, index, config, user_content,
             response, saved_paths, requests, written, trace, clock, error>>
vars == <<callVars, runVars>>

----------------------------------------------------------------------------
(* Bounds of the model *)

MaxRefs == 3        \* reference lists of 0..MaxRefs entries
DrawSteps == 8      \* random.random() is one of 0/DrawSteps .. DrawSteps/DrawSteps
MaxClock == 1       \* int(time.time()) is one of 0..MaxClock
MaxCount == 4       \* schedules are asked for -1..MaxCount values
MaxVariations == 3  \* VARIATIONS is one of 0..MaxVariations
MaxNames == 4       \* REFERENCE_IMAGE_NAMES has 0..MaxNames entries
MaxListed == 3      \* the resolver is given 0..MaxListed reference names

----------------------------------------------------------------------------
(* Program constants, in units of 0.00001 *)

TEMPERATURE_LOW == 20000    \* 0.20
TEMPERATURE_HIGH == 35000   \* 0.35
TOP_P_LOW == 70000          \* 0.70
TOP_P_HIGH == 85000         \* 0.85
MAX_REFERENCE_IMAGES == 2

----------------------------------------------------------------------------
(* Optional values and text *)

None == <<>>
Some(v) == <<v>>
IsNone(o) == o = <<>>
Value(o) == o[1]

Whitespace == {" ", "\n"}

RECURSIVE Lstrip(_, _)
\* str.lstrip(chars): drop the leading characters that are in chars
Lstrip(s, chars) ==
    IF s # <<>> /\ Head(s) \in chars THEN Lstrip(Tail(s), chars) ELSE s

RECURSIVE Rstrip(_, _)
Rstrip(s, chars) ==
    IF s # <<>> /\ s[Len(s)] \in chars
    THEN Rstrip(SubSeq(s, 1, Len(s) - 1), chars)
    ELSE s

\* str.strip(): drop leading and trailing whitespace
Strip(s) == Rstrip(Lstrip(s, Whitespace), Whitespace)

\* str.rfind(c) with 1-based positions: 0 when c does not occur
RFind(s, c) ==
    LET at == {i \in 1..Len(s) : s[i] = c}
    IN  IF at = {} THEN 0 ELSE CHOOSE i \in at : \A j \in at : j <= i

\* os.path.basename: what follows the last "/"
Basename(p) == SubSeq(p, RFind(p, "/") + 1, Len(p))

\* os.path.splitext(p)[0]: p without its extension.  The extension starts at
\* the last dot that follows the last "/", unless only dots precede it in the
\* file name (a leading-dot name has no extension).
SplitextRoot(p) ==
    LET sep == RFind(p, "/")
        dot == RFind(p, ".")
    IN  IF dot > sep /\ \E i \in (sep + 1)..(dot - 1) : p[i] # "."
        THEN SubSeq(p, 1, dot - 1)
        ELSE p

Digit(d) == <<"0", "1", "2", "3", "4", "5", "6", "7", "8", "9">>[d + 1]

RECURSIVE ToStr(_)
\* str(n) of a natural number, as the f-string formats the timestamp
ToStr(n) == IF n < 10 THEN <<Digit(n)>> ELSE ToStr(n \div 10) \o <<Digit(n % 10)>>

----------------------------------------------------------------------------
(* Rounding *)

\* round(num/den, digits) for den > 0, step being the size of the last kept
\* digit: the nearest multiple of step, a tie going up when tieUp and down
\* otherwise.
RoundTo(num, den, step, tieUp) ==
    LET unit == step * den
        q == num \div unit
        r == num % unit
    IN  IF 2 * r < unit THEN step * q
        ELSE IF 2 * r > unit THEN step * (q + 1)
        ELSE IF tieUp THEN step * (q + 1) ELSE step * q

\* round(num/den, 4): to the nearest 0.0001
Round4(num, den, tieUp) == RoundTo(num, den, 10, tieUp)

Min2(a, b) == IF a <= b THEN a ELSE b
Max2(a, b) == IF a >= b THEN a ELSE b

\* round(random.uniform(low, high), 4), the draw random.random() being
\* k/DrawSteps: low + (high - low) * k / DrawSteps, then rounded.
RandomUniformRounded(low, high, k, tieUp) ==
    Round4(low * DrawSteps + (high - low) * k, DrawSteps, tieUp)

----------------------------------------------------------------------------
(* build_gemini_edit_config *)

\* The defaults of the keyword arguments and the literals of the body.  The two
\* long default texts are abbreviated to one non-blank word each.
FALLBACK_BASE == <<"e", "d", "i", "t", "-", "r", "e", "s", "u", "l", "t">>
FALLBACK_EXT == <<"p", "n", "g">>
default_system == <<"P", "e", "r", "f", "o", "r", "m">>
default_prompt == <<"P", "u", "t">>

Raised(kind) == [kind |-> "raised", error |-> kind]
Returned(built) == [kind |-> "returned", config |-> built]

\* `not x` of a list or a string given as a sequence
Falsy(x) == x = <<>>

\* `not target_image`: None or the empty string
TargetMissing(target_image) == IsNone(target_image) \/ Value(target_image) = ""

ValidateArgumentsNoUpperLimit(a) ==
    IF Falsy(a.reference_images) THEN "ValueError"
    ELSE IF TargetMissing(a.target_image) THEN "ValueError"
    ELSE "ok"

ValidateArgumentsAllowEmpty(a) ==
    IF Len(a.reference_images) > MAX_REFERENCE_IMAGES THEN "ValueError"
    ELSE IF TargetMissing(a.target_image) THEN "ValueError"
    ELSE "ok"

\* The three guards at the top of the builder, in their order; each raises
\* ValueError.
ValidateArguments(a) ==
    IF Falsy(a.reference_images) THEN "ValueError"
    ELSE IF Len(a.reference_images) > MAX_REFERENCE_IMAGES THEN "ValueError"
    ELSE IF TargetMissing(a.target_image) THEN "ValueError"
    ELSE "ok"

SamplingValueRoundedToOneDecimal(given, low, high, k, tieUp) ==
    IF IsNone(given)
    THEN RoundTo(low * DrawSteps + (high - low) * k, DrawSteps, 10000, tieUp)
    ELSE Value(given)

SamplingValueFalsyIsUnset(given, low, high, k, tieUp) ==
    IF IsNone(given) \/ Value(given) = 0
    THEN RandomUniformRounded(low, high, k, tieUp)
    ELSE Value(given)

\* `if x is None: x = round(random.uniform(low, high), 4)`: a value that was
\* given, 0 included, is kept as it is.
SamplingValue(given, low, high, k, tieUp) ==
    IF IsNone(given)
    THEN RandomUniformRounded(low, high, k, tieUp)
    ELSE Value(given)

\* f"{safe_base}_{timestamp}.{ext}"
OutputFile(output_base_name, output_ext, now) ==
    LET root == SplitextRoot(Basename(output_base_name))
        safe_base == IF Falsy(root) THEN FALLBACK_BASE ELSE root
        stripped == Lstrip(output_ext, {"."})
        ext == IF Falsy(stripped) THEN FALLBACK_EXT ELSE stripped
    IN  safe_base \o <<"_">> \o ToStr(now) \o <<".">> \o ext

\* `text or default`: None and the empty string give the default
TextOrDefault(text, default) ==
    IF IsNone(text) \/ Falsy(Value(text)) THEN default ELSE Value(text)

PayloadOrderTargetFirst(reference_images, target_image) ==
    <<target_image>> \o reference_images

\* [*reference_images, target_image]
PayloadOrder(reference_images, target_image) ==
    Append(reference_images, target_image)

\* The call: a are the arguments, env the clock and the random source
\* (env.draw_t/env.draw_p: the two random.random() draws, env.tie_t/env.tie_p:
\* how round() decides a tie for each).
BuildGeminiEditConfig(a, env) ==
    IF ValidateArguments(a) # "ok" THEN Raised(ValidateArguments(a))
    ELSE Returned([
        files |-> [referenceImages |-> a.reference_images,
                   targetImage |-> Value(a.target_image)],
        outputFile |-> OutputFile(a.output_base_name, a.output_ext, env.now),
        sampling |-> [
            temperature |-> SamplingValue(a.temperature, TEMPERATURE_LOW,
                                          TEMPERATURE_HIGH, env.draw_t, env.tie_t),
            topP |-> SamplingValue(a.top_p, TOP_P_LOW, TOP_P_HIGH,
                                   env.draw_p, env.tie_p)],
        system |-> TextOrDefault(a.system_prompt, default_system),
        prompt |-> TextOrDefault(a.prompt, default_prompt),
        payloadOrderHint |-> [
            images |-> PayloadOrder(a.reference_images, Value(a.target_image))]])

----------------------------------------------------------------------------
(* Calls of the builder *)

RECURSIVE ListsUpTo(_, _)
\* every list of at most n elements of S
ListsUpTo(S, n) ==
    IF n = 0 THEN {<<>>}
    ELSE LET shorter == ListsUpTo(S, n - 1)
         IN  shorter \cup {Append(l, x) : l \in {m \in shorter : Len(m) = n - 1}, x \in S}

ImageNames == {"ref1.png", "ref2.png"}
TargetArguments == {None, Some(""), Some("target.png")}
PromptArguments ==
    {None, Some(<<>>), Some(<<" ">>), Some(<<" ", "\n">>), Some(<<"E", "d", "i", "t">>)}
SystemArguments == {None, Some(<<"S", "w", "a", "p">>)}
BaseNameArguments == {FALLBACK_BASE, <<"d", "/", "a", ".", "b", "_", "v", "1">>, <<".", "x">>, <<>>}
ExtArguments == {FALLBACK_EXT, <<".", "j", "p", "g">>, <<".">>}
\* explicit sampling values: 0, a value inside both intervals' hull, values
\* outside [0.20, 0.35] and [0.70, 0.85], and one with five decimals
SamplingArguments == {Some(0), Some(25000), Some(80000), Some(90000), Some(12345)}

\* The clock and the random source a call sees: env.now is int(time.time()),
\* env.draw_t/env.draw_p are the two random.random() draws (as multiples of
\* 1/DrawSteps) and env.tie_t/env.tie_p how round() decides a tie for each.  A
\* draw exists only for a sampling value that was not given.
Environments(temperature, top_p, Draws) ==
    [now : 0..MaxClock,
     draw_t : IF IsNone(temperature) THEN Draws ELSE {0},
     draw_p : IF IsNone(top_p) THEN Draws ELSE {0},
     tie_t : IF IsNone(temperature) THEN BOOLEAN ELSE {FALSE},
     tie_p : IF IsNone(top_p) THEN BOOLEAN ELSE {FALSE}]

NoCall == [kind |-> "none"]

\* No run of main() is in progress (the specifications of single calls).
RunOff ==
    /\ pc = "off"
    /\ settings = NoCall /\ texts = NoCall /\ paths = NoCall
    /\ temperatures = <<>> /\ index = 0
    /\ config = NoCall /\ user_content = NoCall /\ response = NoCall
    /\ saved_paths = <<>> /\ requests = <<>> /\ written = <<>> /\ trace = <<>>
    /\ clock = 0 /\ error = None

\* Calls with any reference list and target and any texts and names; top_p is
\* given, temperature is given or left out (its draw at either extreme).
ConfigCalls ==
    {[args |-> a, env |-> env] :
        a \in [reference_images : ListsUpTo(ImageNames, MaxRefs),
               target_image : TargetArguments,
               output_base_name : BaseNameArguments,
               temperature : {None, Some(25000)},
               top_p : {Some(80000)},
               system_prompt : SystemArguments,
               prompt : PromptArguments,
               output_ext : ExtArguments],
        env \in [now : 0..MaxClock, draw_t : {0, DrawSteps}, draw_p : {0},
                 tie_t : {FALSE}, tie_p : {FALSE}]}

\* Calls with every combination of given and omitted sampling values and every
\* random draw, the other arguments being those of the unit tests.
SamplingCalls ==
    UNION {{[args |-> a, env |-> env] :
                env \in {e \in Environments(a.temperature, a.top_p, 0..DrawSteps) : e.now = 0}} :
        a \in [reference_images : ListsUpTo({"ref1.png"}, MaxRefs),
               target_image : {Some(""), Some("target.png")},
               output_base_name : {FALLBACK_BASE},
               temperature : SamplingArguments \cup {None},
               top_p : SamplingArguments \cup {None},
               system_prompt : {None},
               prompt : {None},
               output_ext : {FALLBACK_EXT}]}

\* The call is made: the builder runs on the arguments and the environment.
BuildConfig ==
    /\ bArgs # NoCall
    /\ bResult = NoCall
    /\ bResult' = BuildGeminiEditConfig(bArgs.args, bArgs.env)
    /\ UNCHANGED <<bArgs, sArgs, sResult, rArgs, rResult, runVars>>

InitConfig ==
    /\ bArgs \in ConfigCalls
    /\ bResult = NoCall
    /\ sArgs = NoCall
    /\ sResult = NoCall
    /\ rArgs = NoCall /\ rResult = NoCall
    /\ RunOff

InitSampling ==
    /\ bArgs \in SamplingCalls
    /\ bResult = NoCall
    /\ sArgs = NoCall
    /\ sResult = NoCall
    /\ rArgs = NoCall /\ rResult = NoCall
    /\ RunOff

SpecConfig == InitConfig /\ [][BuildConfig]_vars
SpecSampling == InitSampling /\ [][BuildConfig]_vars

----------------------------------------------------------------------------
(* generate_temperature_schedule *)

SingleValueUnclamped(base, minimum, maximum) == base

\* max(min(base, maximum), minimum): the value of a schedule of one
SingleValue(base, minimum, maximum) == Max2(Min2(base, maximum), minimum)

EffectiveBoundsNoCollapse(base, minimum, maximum) ==
    <<Max2(TEMPERATURE_LOW, minimum), Min2(TEMPERATURE_HIGH, maximum)>>

\* <<lower, upper>>: the bounds cut to [0.20, 0.35] and, when they cross, both
\* replaced by base clamped into [0.20, 0.35]
EffectiveBounds(base, minimum, maximum) ==
    LET lower == Max2(TEMPERATURE_LOW, minimum)
        upper == Min2(TEMPERATURE_HIGH, maximum)
        both == Max2(Min2(base, TEMPERATURE_HIGH), TEMPERATURE_LOW)
    IN  IF lower > upper THEN <<both, both>> ELSE <<lower, upper>>

\* Which tie decision the i-th rounding of a call takes.  round() is a
\* function of its argument: when lower = upper every value of the call is the
\* same float and rounds the same way; otherwise the values differ and each
\* tie is decided on its own.
TieIndex(lower, upper, i) == IF lower = upper THEN 1 ELSE i

InterpolateHalfOpen(lower, upper, count, ties) ==
    [i \in 1..count |->
        Round4(lower * count + (upper - lower) * (i - 1), count,
               ties[TieIndex(lower, upper, i)])]

\* [round(lower + step * idx, 4) for idx in range(count)] with
\* step = (upper - lower) / (count - 1), for count >= 3
Interpolate(lower, upper, count, ties) ==
    [i \in 1..count |->
        Round4(lower * (count - 1) + (upper - lower) * (i - 1), count - 1,
               ties[TieIndex(lower, upper, i)])]

GenerateTemperatureScheduleCountCopies(base, count, minimum, maximum, ties) ==
    IF count <= 1
    THEN [i \in 1..count |-> Round4(SingleValue(base, minimum, maximum), 1, ties[1])]
    ELSE LET bounds == EffectiveBounds(base, minimum, maximum)
         IN  Interpolate(bounds[1], bounds[2], count, ties)

\* The returned list, as a sequence.
GenerateTemperatureSchedule(base, count, minimum, maximum, ties) ==
    IF count <= 1
    THEN <<Round4(SingleValue(base, minimum, maximum), 1, ties[1])>>
    ELSE LET bounds == EffectiveBounds(base, minimum, maximum)
             lower == bounds[1]
             upper == bounds[2]
         IN  IF count = 2
             THEN <<Round4(lower, 1, ties[1]),
                    Round4(upper, 1, ties[TieIndex(lower, upper, 2)])>>
             ELSE Interpolate(lower, upper, count, ties)

\* The values a caller passes for base, minimum and maximum: below, at, inside
\* and above [0.20, 0.35], with four decimals, with five, and on a rounding tie.
Temperatures == {10000, 20000, 20004, 23000, 28005, 30000, 35000, 50000}

\* How round() decides the ties of a call that rounds n values.
TieChoices(n) ==
    {t \in [1..Max2(MaxCount, 1) -> BOOLEAN] : \A i \in (n + 1)..Max2(MaxCount, 1) : ~t[i]}

ScheduleCalls ==
    UNION {[base : Temperatures, count : {c}, minimum : Temperatures,
            maximum : Temperatures, ties : TieChoices(Max2(c, 1))] :
           c \in (-1)..MaxCount}

\* The call is made.
GenerateSchedule ==
    /\ sArgs # NoCall
    /\ sResult = NoCall
    /\ sResult' = [kind |-> "returned",
                   schedule |-> GenerateTemperatureSchedule(
                       sArgs.base, sArgs.count, sArgs.minimum, sArgs.maximum, sArgs.ties)]
    /\ UNCHANGED <<bArgs, bResult, sArgs, rArgs, rResult, runVars>>

InitSchedule ==
    /\ bArgs = NoCall
    /\ bResult = NoCall
    /\ sArgs \in ScheduleCalls
    /\ sResult = NoCall
    /\ rArgs = NoCall /\ rResult = NoCall
    /\ RunOff

SpecSchedule == InitSchedule /\ [][GenerateSchedule]_vars

----------------------------------------------------------------------------
(* resolve_reference_and_target_paths (shared.py and edit_configuration.py) *)

\* The disk.  A directory is "raw" or "targets"; a file name is a sequence of
\* characters.  An entry of a directory is "absent", a regular "file", a
\* "dir", or an "alias": a symbolic link to the target file of the call.
\* A path is [dir, name]; Path.resolve() follows an alias to the target.
FileNames == {<<"a">>, <<"a", "b">>, <<"B">>}
Directories == {"raw", "targets"}

\* ord(c) of the characters of the file names
Code(c) == CASE c = "B" -> 66 [] c = "a" -> 97 [] c = "b" -> 98 [] OTHER -> 0

\* s < t of two strings: at the first position where they differ, or s is a
\* proper prefix of t
StrLess(s, t) ==
    \/ \E i \in 1..Min2(Len(s), Len(t)) :
           /\ \A j \in 1..(i - 1) : s[j] = t[j]
           /\ Code(s[i]) < Code(t[i])
    \/ Len(s) < Len(t) /\ \A j \in 1..Len(s) : s[j] = t[j]

PathOf(dir, name) == [dir |-> dir, name |-> name]

\* the entry of a path on the disk; the empty name is the directory itself
Entry(disk, path) ==
    IF path.name = <<>> THEN "dir" ELSE disk.listing[path.dir][path.name]

\* Path.exists()
Exists(disk, path) == Entry(disk, path) # "absent"

\* Path.is_file(), which follows links: the target of an alias is a file here
IsFile(disk, path) == Entry(disk, path) \in {"file", "alias"}

\* Path.resolve(): the canonical path
Canonical(disk, path, target_path) ==
    IF Entry(disk, path) = "alias" THEN target_path ELSE path

RECURSIVE SortedPathsDescending(_, _)
SortedPathsDescending(dir, names) ==
    IF names = {} THEN <<>>
    ELSE LET last == CHOOSE n \in names : \A m \in names \ {n} : StrLess(m, n)
         IN  <<PathOf(dir, last)>> \o SortedPathsDescending(dir, names \ {last})

RECURSIVE SortedPaths(_, _)
\* sorted(dir.iterdir()) restricted to the names given: ascending by name
SortedPaths(dir, names) ==
    IF names = {} THEN <<>>
    ELSE LET first == CHOOSE n \in names : \A m \in names \ {n} : StrLess(n, m)
         IN  <<PathOf(dir, first)>> \o SortedPaths(dir, names \ {first})

\* The references when no name is given: the files of the reference directory
\* that do not resolve to the target, sorted.
DefaultReferences(disk, reference_dir, target_path) ==
    SortedPaths(reference_dir,
        {n \in FileNames :
            /\ IsFile(disk, PathOf(reference_dir, n))
            /\ Canonical(disk, PathOf(reference_dir, n), target_path)
                   # Canonical(disk, target_path, target_path)})

ExplicitFailureNoDuplicateCheck(disk, reference_dir, name, target_path) ==
    IF ~Exists(disk, PathOf(reference_dir, name)) THEN "FileNotFoundError" ELSE "ok"

ExplicitFailureComparingNames(disk, reference_dir, name, target_path) ==
    IF ~Exists(disk, PathOf(reference_dir, name)) THEN "FileNotFoundError"
    ELSE IF PathOf(reference_dir, name) = target_path THEN "ValueError"
    ELSE "ok"

\* What the loop over the given names does with one name: FileNotFoundError
\* when it does not exist, ValueError when it resolves to the target.
ExplicitFailure(disk, reference_dir, name, target_path) ==
    IF ~Exists(disk, PathOf(reference_dir, name)) THEN "FileNotFoundError"
    ELSE IF Canonical(disk, PathOf(reference_dir, name), target_path)
                = Canonical(disk, target_path, target_path) THEN "ValueError"
    ELSE "ok"

\* The first given name the loop fails on, 0 when it fails on none.
FirstFailing(disk, reference_dir, reference_names, target_path) ==
    LET failing == {i \in 1..Len(reference_names) :
                        ExplicitFailure(disk, reference_dir, reference_names[i],
                                        target_path) # "ok"}
    IN  IF failing = {} THEN 0 ELSE CHOOSE i \in failing : \A j \in failing : i <= j

\* The two checks on the resolved references: none, or more than two
CountCheck(references) ==
    IF Falsy(references) THEN "ValueError"
    ELSE IF Len(references) > 2 THEN "ValueError"
    ELSE "ok"

\* The call.
ResolveReferenceAndTargetPaths(disk, reference_dir, target_dir, reference_names, target_name) ==
    LET target_path == PathOf(target_dir, target_name)
        failing == FirstFailing(disk, reference_dir, reference_names, target_path)
        references ==
            IF ~Falsy(reference_names)
            THEN [i \in 1..Len(reference_names) |->
                      PathOf(reference_dir, reference_names[i])]
            ELSE DefaultReferences(disk, reference_dir, target_path)
    IN  IF reference_dir \notin disk.directories THEN Raised("FileNotFoundError")
        ELSE IF target_dir \notin disk.directories THEN Raised("FileNotFoundError")
        ELSE IF Falsy(target_name) THEN Raised("ValueError")
        ELSE IF ~Exists(disk, target_path) THEN Raised("FileNotFoundError")
        ELSE IF ~Falsy(reference_names) /\ failing # 0
             THEN Raised(ExplicitFailure(disk, reference_dir,
                                         reference_names[failing], target_path))
        ELSE IF CountCheck(references) # "ok" THEN Raised(CountCheck(references))
        ELSE [kind |-> "returned", references |-> references, target |-> target_path]

\* The disks of the calls: both directories there with any entries in "raw"
\* and at most one file in "targets", or one of the directories missing.
NothingIn == [n \in FileNames |-> "absent"]
Disks ==
    {[directories |-> Directories, listing |-> [raw |-> raw, targets |-> targets]] :
        raw \in [FileNames -> {"absent", "file", "dir", "alias"}],
        targets \in {NothingIn} \cup
                    {[NothingIn EXCEPT ![n] = "file"] : n \in FileNames}}
    \cup
    {[directories |-> d,
      listing |-> [raw |-> [n \in FileNames |-> "file"],
                   targets |-> [n \in FileNames |-> "file"]]] :
        d \in {{"raw"}, {"targets"}}}

\* Calls on every disk with the target in "raw" or in "targets"; an alias is
\* a link to the target, so the target itself is none, and "targets" matters
\* only when the target is looked up there.
ResolveCalls ==
    {c \in [disk : Disks,
            reference_dir : {"raw"},
            target_dir : Directories,
            reference_names : ListsUpTo(FileNames, MaxListed),
            target_name : FileNames \cup {<<>>}] :
        /\ c.target_name # <<>> =>
               c.disk.listing[c.target_dir][c.target_name] # "alias"
        /\ c.target_dir = "raw" => c.disk.listing.targets = NothingIn
                                       \/ c.disk.directories # Directories}

\* The call is made.
Resolve ==
    /\ rArgs # NoCall
    /\ rResult = NoCall
    /\ rResult' = ResolveReferenceAndTargetPaths(
           rArgs.disk, rArgs.reference_dir, rArgs.target_dir,
           rArgs.reference_names, rArgs.target_name)
    /\ UNCHANGED <<bArgs, bResult, sArgs, sResult, rArgs, runVars>>

InitResolve ==
    /\ bArgs = NoCall /\ bResult = NoCall /\ sArgs = NoCall /\ sResult = NoCall
    /\ rArgs \in ResolveCalls
    /\ rResult = NoCall
    /\ RunOff

SpecResolve == InitResolve /\ [][Resolve]_vars

----------------------------------------------------------------------------
(* save_images *)

\* os.path.splitext(p)[1]: what SplitextRoot leaves off
SplitextExt(p) == SubSeq(p, Len(SplitextRoot(p)) + 1, Len(p))

\* f"{n:02d}"
Pad2(n) == IF n < 10 THEN <<"0">> \o ToStr(n) ELSE ToStr(n)

\* datetime.now(UTC).strftime("%Y%m%d_%H%M%S") at now seconds of the epoch, for
\* now < 60
UtcStamp(now) ==
    <<"1", "9", "7", "0", "0", "1", "0", "1", "_", "0", "0", "0", "0">> \o Pad2(now)

\* A part of a response is one of: "text" (no inline data), "png" and "jpeg"
\* (inline data of that mime type), "nomime" (inline data without mime type),
\* "odd" (inline data of a mime type mimetypes does not know) and "empty"
\* (inline_data without data).
HasInlineData(part) == part \in {"png", "jpeg", "nomime", "odd"}

\* mimetypes.guess_extension(inline.mime_type or "image/png") or ext
GuessedExt(part, ext) ==
    CASE part \in {"png", "nomime"} -> <<".", "p", "n", "g">>
      [] part = "jpeg" -> <<".", "j", "p", "g">>
      [] OTHER -> ext

\* The name of the file written for part part_index of candidate
\* candidate_index (both from 0).
SavedFileName(base_name, ext, stamp, candidate_index, part_index, part) ==
    IF candidate_index = 0 /\ part_index = 0
    THEN base_name \o GuessedExt(part, ext)
    ELSE base_name \o <<"_">> \o stamp \o <<"_">> \o Pad2(candidate_index)
             \o <<"_">> \o Pad2(part_index) \o GuessedExt(part, ext)

RECURSIVE FilesOfParts(_, _, _, _, _, _)
\* the files written for the first n parts of a candidate, in order
FilesOfParts(parts, n, base_name, ext, stamp, candidate_index) ==
    IF n = 0 THEN <<>>
    ELSE LET before == FilesOfParts(parts, n - 1, base_name, ext, stamp, candidate_index)
         IN  IF HasInlineData(parts[n])
             THEN Append(before, SavedFileName(base_name, ext, stamp,
                                               candidate_index, n - 1, parts[n]))
             ELSE before

RECURSIVE FilesOfCandidates(_, _, _, _, _)
\* the files written for the first n candidates, in order; a candidate without
\* content (None) or without parts is skipped
FilesOfCandidates(candidates, n, base_name, ext, stamp) ==
    IF n = 0 THEN <<>>
    ELSE LET before == FilesOfCandidates(candidates, n - 1, base_name, ext, stamp)
             content == candidates[n]
         IN  IF IsNone(content) \/ Falsy(Value(content)) THEN before
             ELSE before \o FilesOfParts(Value(content), Len(Value(content)),
                                         base_name, ext, stamp, n - 1)

\* The files save_images writes for a response, in the order written.
SaveImagesFiles(candidates, preferred_filename, now) ==
    LET stamp == UtcStamp(now)
        root == SplitextRoot(preferred_filename)
        suffix == SplitextExt(preferred_filename)
        base_name == IF Falsy(root)
                     THEN <<"g", "e", "m", "i", "n", "i", "_", "e", "d", "i", "t", "_">> \o stamp
                     ELSE root
        ext == IF Falsy(suffix) THEN <<".", "p", "n", "g">> ELSE suffix
    IN  FilesOfCandidates(candidates, Len(candidates), base_name, ext, stamp)

----------------------------------------------------------------------------
(* run_extraction and main of extract_clothes.py *)

BASE_TEMPERATURE == 23000
TEMPERATURE_SPREAD == 5000
BASE_TOP_P == 75000

\* load_prompt on a prompt file whose content is file (None: no such file)
LoadPrompt(file) ==
    IF IsNone(file) THEN [kind |-> "raised", error |-> "FileNotFoundError"]
    ELSE IF Falsy(Strip(Value(file))) THEN [kind |-> "raised", error |-> "ValueError"]
    ELSE [kind |-> "returned", text |-> Strip(Value(file))]

\* mimetypes.guess_type of a file name: None when the name has no known
\* extension
GuessType(name) ==
    CASE name \in {"model.png", "zoom.png", "front.png", "back.png"} -> Some("image/png")
      [] name = "dress.jpeg" -> Some("image/jpeg")
      [] OTHER -> None

ImageFiles == <<"model.png", "dress.jpeg", "zoom.png", "front.png", "back.png">>

\* The values REFERENCE_IMAGE_NAMES is given: 0..MaxNames file names, and the
\* extension-less name of the source alone and after another.
ReferenceNameLists ==
    {SubSeq(ImageFiles, 1, n) : n \in 0..MaxNames}
        \cup {<<"model-louvres">>, <<"model.png", "model-louvres">>}

OutputBaseNames == {<<"a", "s", "i", "a", "n">>, <<"a", ".", "b">>, <<"d", "/", "x">>}

\* The responses generate_content gives, as the list of the candidates'
\* contents (None: a candidate without content).
Responses ==
    {<<>>,
     <<Some(<<"png">>)>>,
     <<Some(<<"text">>)>>,
     <<Some(<<"text", "jpeg">>)>>,
     <<None, Some(<<"png">>)>>}

Settings ==
    [VARIATIONS : 0..MaxVariations,
     REFERENCE_IMAGE_NAMES : ReferenceNameLists,
     OUTPUT_BASE_NAME : OutputBaseNames,
     system_file : {None, Some(<<"S", "w", "a", "p", "\n">>)},
     prompt_file : {None, Some(<<" ", "\n">>), Some(<<"E", "d", "i", "t", "\n">>)},
     present : {{ImageFiles[i] : i \in 1..Len(ImageFiles)} \cup {"model-louvres"},
                {"model.png", "model-louvres"}},
     api_key : BOOLEAN]

\* round() has no tie to decide on the schedule of the run
NoTies == [i \in 1..Max2(MaxVariations, 1) |-> FALSE]

\* One call of the loop, as logged: the config built for variation index
\* (detail: the base name given and, when a config came back, its outputFile),
\* the generate_content call made for it, or its save_images call (detail: the
\* files written).
Event(op, i, detail) == [op |-> op, index |-> i, detail |-> detail]

FailsUnnoticed(e) == pc' = "returned" /\ error' = Some(e)

\* The exception e leaves run_extraction.
Fails(e) == pc' = "failed" /\ error' = Some(e)

\* Lines 53-89: the prompts are loaded, the reference names resolved and the
\* schedule computed.
Prepare ==
    /\ pc = "start"
    /\ LET system == LoadPrompt(settings.system_file)
           prompt == LoadPrompt(settings.prompt_file)
           names == settings.REFERENCE_IMAGE_NAMES
           failure ==
               IF system.kind = "raised" THEN Some(system.error)
               ELSE IF prompt.kind = "raised" THEN Some(prompt.error)
               ELSE IF Falsy(names) THEN Some("ValueError")
               ELSE IF \E i \in 1..Len(names) : names[i] \notin settings.present
                    THEN Some("FileNotFoundError")
               ELSE None
       IN  IF ~IsNone(failure)
           THEN /\ Fails(Value(failure))
                /\ UNCHANGED <<texts, paths, temperatures, index>>
           ELSE /\ texts' = [system |-> system.text, prompt |-> prompt.text]
                /\ paths' = [target |-> Head(names), supporting |-> Tail(names)]
                /\ temperatures' = GenerateTemperatureSchedule(
                       BASE_TEMPERATURE, settings.VARIATIONS,
                       Max2(20000, BASE_TEMPERATURE - TEMPERATURE_SPREAD),
                       Min2(35000, BASE_TEMPERATURE + TEMPERATURE_SPREAD), NoTies)
                /\ index' = 1
                /\ pc' = "loop"
                /\ UNCHANGED error
    /\ UNCHANGED <<settings, config, user_content, response, saved_paths, requests,
                   written, trace, clock, callVars>>

\* Lines 93-111: the next variation starts and its config is built, the
\* target standing in for the references when there is no supporting image.
BuildVariation ==
    /\ pc = "loop"
    /\ index <= Len(temperatures)
    /\ \E now \in clock..Min2(clock + 1, MaxClock) :
        LET a == [reference_images |->
                      IF Falsy(paths.supporting) THEN <<paths.target>>
                      ELSE paths.supporting,
                  target_image |-> Some(paths.target),
                  output_base_name |->
                      settings.OUTPUT_BASE_NAME \o <<"_", "v">> \o ToStr(index),
                  temperature |-> Some(temperatures[index]),
                  top_p |-> Some(BASE_TOP_P),
                  system_prompt |-> Some(texts.system),
                  prompt |-> Some(texts.prompt),
                  output_ext |-> FALLBACK_EXT]
            env == [now |-> now, draw_t |-> 0, draw_p |-> 0,
                    tie_t |-> FALSE, tie_p |-> FALSE]
            built == BuildGeminiEditConfig(a, env)
        IN  IF built.kind = "raised"
            THEN /\ Fails(built.error)
                 /\ trace' = Append(trace, Event("build", index, <<a.output_base_name>>))
                 /\ UNCHANGED <<config, clock>>
            ELSE /\ config' = built.config
                 /\ clock' = now
                 /\ pc' = "built"
                 /\ trace' = Append(trace, Event("build", index,
                                <<a.output_base_name, built.config.outputFile>>))
                 /\ UNCHANGED error
    /\ UNCHANGED <<settings, texts, paths, temperatures, index, user_content, response,
                   saved_paths, requests, written, callVars>>

ApplyFallbackKeepingConfig ==
    /\ pc = "built"
    /\ pc' = "configured"
    /\ UNCHANGED <<settings, texts, paths, temperatures, index, config, user_content,
                   response, saved_paths, requests, written, trace, clock, error, callVars>>

\* Lines 113-115: with the target standing in, the config is rewritten to list
\* no reference.
ApplyFallback ==
    /\ pc = "built"
    /\ config' = IF Falsy(paths.supporting)
                 THEN [config EXCEPT !.files.referenceImages = <<>>,
                                     !.payloadOrderHint.images = <<paths.target>>]
                 ELSE config
    /\ pc' = "configured"
    /\ UNCHANGED <<settings, texts, paths, temperatures, index, user_content, response,
                   saved_paths, requests, written, trace, clock, error, callVars>>

\* Lines 121-126, build_user_content: the text parts, then one image part for
\* each supporting path and for the target, in this order.
BuildUserContent ==
    /\ pc = "configured"
    /\ LET ordered_paths == Append(paths.supporting, paths.target)
       IN  IF Falsy(Strip(texts.prompt))
              \/ \E i \in 1..Len(ordered_paths) : IsNone(GuessType(ordered_paths[i]))
           THEN Fails("ValueError") /\ UNCHANGED user_content
           ELSE /\ user_content' =
                       [text |-> (IF Falsy(Strip(config.system)) THEN <<>>
                                  ELSE <<Strip(config.system)>>)
                                     \o <<Strip(texts.prompt)>>,
                        images |-> ordered_paths]
                /\ pc' = "content"
                /\ UNCHANGED error
    /\ UNCHANGED <<settings, texts, paths, temperatures, index, config, response,
                   saved_paths, requests, written, trace, clock, callVars>>

RequestWithFirstTemperature ==
    [index |-> index,
     temperature |-> temperatures[1],
     top_p |-> config.sampling.topP,
     images |-> user_content.images]

\* The generate_content call of the current variation, as the service sees it.
Request ==
    [index |-> index,
     temperature |-> config.sampling.temperature,
     top_p |-> config.sampling.topP,
     images |-> user_content.images]

\* Lines 127-132, request_image_edit without an API key: load_api_key raises
\* before any request is made.
RequestWithoutKey ==
    /\ pc = "content"
    /\ ~settings.api_key
    /\ Fails("RuntimeError")
    /\ UNCHANGED <<settings, texts, paths, temperatures, index, config, user_content,
                   response, saved_paths, requests, written, trace, clock, callVars>>

\* request_image_edit: the request is made and the client raises.
RequestFails ==
    /\ pc = "content"
    /\ settings.api_key
    /\ requests' = Append(requests, Request)
    /\ trace' = Append(trace, Event("request", index, <<>>))
    /\ Fails("APIError")
    /\ UNCHANGED <<settings, texts, paths, temperatures, index, config, user_content,
                   response, saved_paths, written, clock, callVars>>

\* request_image_edit: the request is made and answered; a response without
\* candidates raises RuntimeError.
RequestImageEdit ==
    /\ pc = "content"
    /\ settings.api_key
    /\ requests' = Append(requests, Request)
    /\ trace' = Append(trace, Event("request", index, <<>>))
    /\ \E answer \in Responses :
        IF Falsy(answer)
        THEN Fails("RuntimeError") /\ UNCHANGED response
        ELSE response' = Some(answer) /\ pc' = "responded" /\ UNCHANGED error
    /\ UNCHANGED <<settings, texts, paths, temperatures, index, config, user_content,
                   saved_paths, written, clock, callVars>>

\* Lines 133-138, save_images: the inline images are written; none written
\* raises RuntimeError, otherwise the paths are collected and the loop goes on.
SaveImages ==
    /\ pc = "responded"
    /\ \E now \in clock..Min2(clock + 1, MaxClock) :
        LET files == SaveImagesFiles(Value(response), config.outputFile, now)
        IN  /\ clock' = now
            /\ written' = written \o files
            /\ trace' = Append(trace, Event("save", index, files))
            /\ IF Falsy(files)
               THEN Fails("RuntimeError") /\ UNCHANGED <<saved_paths, index>>
               ELSE /\ saved_paths' = saved_paths \o files
                    /\ index' = index + 1
                    /\ pc' = "loop"
                    /\ UNCHANGED error
    /\ UNCHANGED <<settings, texts, paths, temperatures, config, user_content, response,
                   requests, callVars>>

\* Line 140: the schedule is exhausted and the collected paths are returned.
ReturnPaths ==
    /\ pc = "loop"
    /\ index > Len(temperatures)
    /\ pc' = "returned"
    /\ UNCHANGED <<settings, texts, paths, temperatures, index, config, user_content,
                   response, saved_paths, requests, written, trace, clock, error, callVars>>

\* Lines 143-147, main: any exception of run_extraction is caught and printed.
ReportError ==
    /\ pc = "failed"
    /\ pc' = "reported"
    /\ UNCHANGED <<settings, texts, paths, temperatures, index, config, user_content,
                   response, saved_paths, requests, written, trace, clock, error, callVars>>

Init ==
    /\ bArgs = NoCall /\ bResult = NoCall /\ sArgs = NoCall /\ sResult = NoCall
    /\ rArgs = NoCall /\ rResult = NoCall
    /\ pc = "start"
    /\ settings \in Settings
    /\ texts = NoCall /\ paths = NoCall
    /\ temperatures = <<>> /\ index = 0
    /\ config = NoCall /\ user_content = NoCall /\ response = NoCall
    /\ saved_paths = <<>> /\ requests = <<>> /\ written = <<>> /\ trace = <<>>
    /\ clock = 0 /\ error = None

Next ==
    \/ Prepare
    \/ BuildVariation
    \/ ApplyFallback
    \/ BuildUserContent
    \/ RequestWithoutKey
    \/ RequestFails
    \/ RequestImageEdit
    \/ SaveImages
    \/ ReturnPaths
    \/ ReportError

Spec == Init /\ [][Next]_vars

----------------------------------------------------------------------------
(* Claims about build_gemini_edit_config *)

Called == bResult # NoCall
ReturnedConfig == bResult.kind = "returned"
RaisedValueError == bResult.kind = "raised" /\ bResult.error = "ValueError"

C2_RandomSamplingWithinIntervals ==
    (ReturnedConfig /\ IsNone(bArgs.args.temperature) /\ IsNone(bArgs.args.top_p)) =>
        /\ 20000 <= bResult.config.sampling.temperature
        /\ bResult.config.sampling.temperature <= 35000
        /\ 70000 <= bResult.config.sampling.topP
        /\ bResult.config.sampling.topP <= 85000

\* both omitted, the temperature draw at the upper end point and rounded from a
\* tie for topP
C2_Witness ==
    /\ ReturnedConfig
    /\ IsNone(bArgs.args.temperature) /\ IsNone(bArgs.args.top_p)
    /\ bArgs.env.draw_t = DrawSteps
    /\ bResult.config.sampling.temperature = 35000
    /\ bArgs.env.draw_p = 1
    /\ bResult.config.sampling.topP * DrawSteps # 70000 * DrawSteps + 15000

\* C3: a temperature or top_p that was given, 0 and out-of-interval values
\* included, is returned exactly as given.
C3_ExplicitSamplingEchoed ==
    ReturnedConfig =>
        /\ ~IsNone(bArgs.args.temperature) =>
               bResult.config.sampling.temperature = Value(bArgs.args.temperature)
        /\ ~IsNone(bArgs.args.top_p) =>
               bResult.config.sampling.topP = Value(bArgs.args.top_p)

C3_Witness ==
    /\ ReturnedConfig
    /\ bArgs.args.temperature = Some(0)
    /\ bArgs.args.top_p = Some(12345)
    /\ bResult.config.sampling = [temperature |-> 0, topP |-> 12345]

\* C4: a call with more than 2 reference images, or with a target that is None
\* or empty, raises ValueError and returns no config, whatever the other
\* arguments.
C4_TooManyReferencesOrNoTargetRaises ==
    (/\ Called
     /\ \/ Len(bArgs.args.reference_images) > 2
        \/ IsNone(bArgs.args.target_image)
        \/ Value(bArgs.args.target_image) = "") => RaisedValueError

C4_Witness ==
    /\ RaisedValueError
    /\ Len(bArgs.args.reference_images) = 3
    /\ bArgs.args.target_image = Some("target.png")

\* C5 as stated: a call with an empty reference list and a non-empty target
\* returns a config with no referenceImages and payloadOrderHint.images = [target].
C5_ZeroReferencesTolerated ==
    (/\ Called
     /\ bArgs.args.reference_images = <<>>
     /\ bArgs.args.target_image = Some("target.png")) =>
        /\ ReturnedConfig
        /\ bResult.config.files.referenceImages = <<>>
        /\ bResult.config.payloadOrderHint.images = <<"target.png">>

\* C5 amended: a call with an empty reference list raises ValueError whatever
\* the target, so a returned config has 1 or 2 referenceImages and its
\* payloadOrderHint.images has one entry more.
C5_ZeroReferencesRejected ==
    /\ (Called /\ bArgs.args.reference_images = <<>>) => RaisedValueError
    /\ ReturnedConfig =>
        /\ Len(bResult.config.files.referenceImages) \in {1, 2}
        /\ Len(bResult.config.payloadOrderHint.images)
               = Len(bResult.config.files.referenceImages) + 1

C5_Witness ==
    /\ RaisedValueError
    /\ bArgs.args.reference_images = <<>>
    /\ bArgs.args.target_image = Some("target.png")

\* C6: in every returned config, whatever the prompt argument (omitted, empty,
\* blank or text), config.prompt is non-empty after trimming whitespace.
C6_PromptNonEmptyAfterTrimming ==
    ReturnedConfig => Strip(bResult.config.prompt) # <<>>

----------------------------------------------------------------------------
(* Claims about generate_temperature_schedule *)

ReturnedSchedule == sResult.kind = "returned"
ScheduleValues == {sResult.schedule[i] : i \in 1..Len(sResult.schedule)}

\* C7 as stated: for every base, count, minimum and maximum, every value of the
\* returned schedule lies in [minimum, maximum].
C7_ValuesWithinMinimumMaximum ==
    ReturnedSchedule =>
        \A v \in ScheduleValues : sArgs.minimum <= v /\ v <= sArgs.maximum

\* The calls whose bounds the code honours: minimum <= maximum for count <= 1,
\* and [minimum, maximum] meeting [0.20, 0.35] for count >= 2.
BoundsHonoured ==
    IF sArgs.count <= 1
    THEN sArgs.minimum <= sArgs.maximum
    ELSE Max2(20000, sArgs.minimum) <= Min2(35000, sArgs.maximum)

\* C7 amended: for the calls of BoundsHonoured, every value of the returned
\* schedule lies in [minimum, maximum] up to its rounding to 4 decimals: it is
\* within 0.00005 of the interval, and inside it at each bound that has at
\* most 4 decimals.
C7_ValuesWithinRoundedBounds ==
    (ReturnedSchedule /\ BoundsHonoured) =>
        \A v \in ScheduleValues :
            /\ sArgs.minimum - 5 <= v /\ v <= sArgs.maximum + 5
            /\ sArgs.minimum % 10 = 0 => sArgs.minimum <= v
            /\ sArgs.maximum % 10 = 0 => v <= sArgs.maximum

\* three values between bounds given with five decimals, the first rounded to
\* below the minimum
C7_Witness ==
    /\ ReturnedSchedule
    /\ sArgs.count = 3 /\ sArgs.minimum = 20004 /\ sArgs.maximum = 28005
    /\ sResult.schedule[1] = 20000
    /\ sResult.schedule[3] = 28010

\* C8: the returned schedule is non-decreasing, each value <= the next, for
\* every base, count, minimum and maximum.
C8_ScheduleNonDecreasing ==
    ReturnedSchedule =>
        \A i \in 1..(Len(sResult.schedule) - 1) :
            sResult.schedule[i] <= sResult.schedule[i + 1]

\* crossed bounds, three values: the collapsed branch
C8_Witness ==
    /\ ReturnedSchedule
    /\ sArgs.count = 3 /\ sArgs.minimum = 30000 /\ sArgs.maximum = 23000
    /\ sArgs.base = 28005
    /\ sResult.schedule = <<28010, 28010, 28010>>

\* C9: every value of every returned schedule lies in [0.20, 0.35], for every
\* base, count, minimum and maximum.
C9_ValuesWithinHardLimits ==
    ReturnedSchedule => \A v \in ScheduleValues : 20000 <= v /\ v <= 35000

----------------------------------------------------------------------------
(* Claims about the variations of run_extraction *)

ScheduleComputed == pc \notin {"off", "start"} /\ texts # NoCall

\* C10 as stated: the schedule has exactly VARIATIONS values, and a run that
\* completes has issued exactly VARIATIONS variations, also for VARIATIONS = 0.
C10_ExactlyVariationsIssued ==
    /\ ScheduleComputed => Len(temperatures) = settings.VARIATIONS
    /\ pc = "returned" => Len(requests) = settings.VARIATIONS

\* C10 amended: the schedule has max(VARIATIONS, 1) values (VARIATIONS of them
\* for VARIATIONS >= 1, one for VARIATIONS = 0), and a run that completes has
\* issued one variation per schedule entry, in order.
C10_OneVariationPerScheduleEntry ==
    /\ ScheduleComputed =>
           Len(temperatures) = IF settings.VARIATIONS >= 1 THEN settings.VARIATIONS ELSE 1
    /\ pc = "returned" =>
        /\ Len(requests) = IF settings.VARIATIONS >= 1 THEN settings.VARIATIONS ELSE 1
        /\ \A i \in 1..Len(requests) : requests[i].index = i

\* a run configured for no variation that completed after issuing one
C10_Witness ==
    /\ pc = "returned"
    /\ settings.VARIATIONS = 0
    /\ Len(requests) = 1
    /\ Len(saved_paths) >= 1

----------------------------------------------------------------------------
(* Claims about resolve_reference_and_target_paths *)

Resolved == rResult.kind = "returned"
ResolveRaised(kind) == rResult.kind = "raised" /\ rResult.error = kind
GivenTarget == PathOf(rArgs.target_dir, rArgs.target_name)

\* where a path leads once links are followed
RealPath(path) ==
    IF path.name # <<>> /\ rArgs.disk.listing[path.dir][path.name] = "alias"
    THEN GivenTarget ELSE path

\* the directories and the target of the call are there
TargetFound ==
    /\ {rArgs.reference_dir, rArgs.target_dir} \subseteq rArgs.disk.directories
    /\ rArgs.target_name # <<>>
    /\ rArgs.disk.listing[rArgs.target_dir][rArgs.target_name] # "absent"

\* the files of the reference directory that are not the target
OtherFiles ==
    {n \in FileNames :
        /\ rArgs.disk.listing[rArgs.reference_dir][n] = "file"
        /\ PathOf(rArgs.reference_dir, n) # GivenTarget}

\* C11: a successful call returns 1 or 2 references, none with the canonical
\* path of the returned target; when no reference or more than 2 resolve, the
\* call raises ValueError instead.
C11_OneOrTwoReferencesNoneTheTarget ==
    /\ Resolved =>
        /\ Len(rResult.references) \in {1, 2}
        /\ \A i \in 1..Len(rResult.references) :
               RealPath(rResult.references[i]) # RealPath(rResult.target)
    /\ (/\ rResult # NoCall /\ TargetFound
        /\ \/ /\ rArgs.reference_names = <<>>
              /\ Cardinality(OtherFiles) \notin {1, 2}
           \/ /\ Len(rArgs.reference_names) > 2
              /\ \A i \in 1..Len(rArgs.reference_names) :
                     /\ rArgs.disk.listing[rArgs.reference_dir][rArgs.reference_names[i]]
                            \in {"file", "dir"}
                     /\ PathOf(rArgs.reference_dir, rArgs.reference_names[i]) # GivenTarget)
       => ResolveRaised("ValueError")

\* two names given next to a link to the target that was not named
C11_Witness ==
    /\ Resolved
    /\ Len(rResult.references) = 2
    /\ rArgs.reference_names # <<>>
    /\ rArgs.target_dir = "raw"
    /\ \E n \in FileNames : rArgs.disk.listing.raw[n] = "alias"

\* C12: with no reference name given, a successful call returns exactly the
\* files of the reference directory other than the target, in ascending name
\* order (one such file: that file alone); given names are returned in the
\* order given.
C12_DefaultIsSortedOtherFiles ==
    Resolved =>
        IF rArgs.reference_names = <<>>
        THEN /\ {rResult.references[i].name : i \in 1..Len(rResult.references)} = OtherFiles
             /\ Len(rResult.references) = Cardinality(OtherFiles)
             /\ \A i \in 1..Len(rResult.references) :
                    rResult.references[i].dir = rArgs.reference_dir
             /\ \A i \in 1..(Len(rResult.references) - 1) :
                    StrLess(rResult.references[i].name, rResult.references[i + 1].name)
        ELSE rResult.references =
                 [i \in 1..Len(rArgs.reference_names) |->
                      PathOf(rArgs.reference_dir, rArgs.reference_names[i])]

\* the directory lists "a" (the target), "ab" and "B": "B" sorts before "ab"
C12_Witness ==
    /\ Resolved
    /\ rArgs.reference_names = <<>>
    /\ rArgs.target_dir = "raw" /\ rArgs.target_name = <<"a">>
    /\ rResult.references = <<PathOf("raw", <<"B">>), PathOf("raw", <<"a", "b">>)>>

\* the given names include the target's file name, in the target's directory
TargetNamed ==
    /\ rResult # NoCall
    /\ rArgs.reference_dir = rArgs.target_dir
    /\ rArgs.target_name # <<>>
    /\ \E i \in 1..Len(rArgs.reference_names) : rArgs.reference_names[i] = rArgs.target_name

\* C13 as stated: with the reference directory being the target directory and
\* the target's file name among the given names, at any position and next to
\* any other names, the call raises ValueError.
C13_TargetNamedRaisesValueError ==
    TargetNamed => ResolveRaised("ValueError")

\* C13 amended: such a call never returns a result; it raises ValueError when
\* the directory and the target exist and every name given before the target's
\* exists, and FileNotFoundError when the directory, the target or the first
\* given name is missing.
C13_TargetNamedRaises ==
    TargetNamed =>
        LET names == rArgs.reference_names
            at == CHOOSE i \in 1..Len(names) :
                      /\ names[i] = rArgs.target_name
                      /\ \A j \in 1..(i - 1) : names[j] # rArgs.target_name
        IN  /\ rResult.kind = "raised"
            /\ rResult.error \in {"ValueError", "FileNotFoundError"}
            /\ (/\ TargetFound
                /\ \A j \in 1..(at - 1) :
                       rArgs.disk.listing[rArgs.reference_dir][names[j]] # "absent")
                   => rResult.error = "ValueError"
            /\ (\/ ~TargetFound
                \/ rArgs.disk.listing[rArgs.reference_dir][names[1]] = "absent")
                   => rResult.error = "FileNotFoundError"

\* the target named second, after a file that exists
C13_Witness ==
    /\ TargetNamed
    /\ ResolveRaised("ValueError")
    /\ Len(rArgs.reference_names) = 2
    /\ rArgs.reference_names[2] = rArgs.target_name
    /\ rArgs.reference_names[1] # rArgs.target_name
    /\ rArgs.disk.listing.raw[rArgs.reference_names[1]] = "file"

----------------------------------------------------------------------------
(* Claims about the order of the calls of run_extraction *)

\* the events of the trace with this op
EventsOf(op) == {k \in 1..Len(trace) : trace[k].op = op}

RECURSIVE SavedUpTo(_)
\* the files of the save_images calls of variations 1..n, one after the other
SavedUpTo(n) == IF n = 0 THEN <<>> ELSE SavedUpTo(n - 1) \o trace[3 * n].detail

\* C14: in a run that completes, the calls made are, for each schedule entry
\* i = 1..N in increasing order, one config build with base name
\* OUTPUT_BASE_NAME_v{i}, then one generate_content call with schedule[i] as
\* temperature and BASE_TOP_P as topP, then one save_images call, and nothing
\* else; the returned paths are the saved paths of the variations in order.
C14_BuildRequestSavePerVariation ==
    pc = "returned" =>
        LET N == Len(temperatures)
        IN  /\ Len(trace) = 3 * N
            /\ Len(requests) = N
            /\ \A i \in 1..N :
                /\ trace[3 * i - 2].op = "build"
                /\ trace[3 * i - 2].index = i
                /\ trace[3 * i - 2].detail[1] =
                       settings.OUTPUT_BASE_NAME \o <<"_", "v">> \o ToStr(i)
                /\ trace[3 * i - 1].op = "request"
                /\ trace[3 * i - 1].index = i
                /\ requests[i].index = i
                /\ requests[i].temperature = temperatures[i]
                /\ requests[i].top_p = BASE_TOP_P
                /\ trace[3 * i].op = "save"
                /\ trace[3 * i].index = i
                /\ trace[3 * i].detail # <<>>
            /\ saved_paths = SavedUpTo(N)

\* three variations, each with its own temperature and one saved file
C14_Witness ==
    /\ pc = "returned"
    /\ Len(requests) = 3
    /\ requests[1].temperature < requests[2].temperature
    /\ requests[2].temperature < requests[3].temperature
    /\ Len(saved_paths) = 3

\* C15: once a step of variation i has failed, no generate_content call and no
\* file write is made any more (so none for a variation j > i), the run does
\* not return a path list, and main reports the error.
C15_FailureAbortsTheRun ==
    [][/\ error' # None =>
            /\ pc' \in {"failed", "reported"}
            /\ \A k \in 1..Len(requests') : requests'[k].index <= index'
       /\ error # None =>
            /\ requests' = requests
            /\ written' = written
            /\ saved_paths' = saved_paths
            /\ error' = error
       /\ pc = "failed" => pc' = "reported"]_vars

\* the second of three variations failed after the first had saved its file
C15_Witness ==
    /\ pc = "reported"
    /\ error # None
    /\ index = 2
    /\ Len(temperatures) = 3
    /\ Len(written) = 1
    /\ Len(requests) = 2

----------------------------------------------------------------------------
(* Claims about the files and the config of a variation *)

FileExtensions == {<<".", "p", "n", "g">>, <<".", "j", "p", "g">>}

\* C16 as stated: in every save_images call that writes a file, whatever the
\* shape of the response, the first file written is the preferred filename's
\* base plus extension, and every later one is
\* {base}_{timestamp}_{candidateIdx:02d}_{partIdx:02d}{ext}.
C16_FirstFileHasPreferredName ==
    [][(pc = "responded" /\ written' # written) =>
        LET files == trace'[Len(trace')].detail
            base == SplitextRoot(config.outputFile)
        IN  /\ \E ext \in FileExtensions : files[1] = base \o ext
            /\ \A k \in 2..Len(files) :
                 \E c \in 0..(Len(Value(response)) - 1), q \in 0..9, ext \in FileExtensions :
                    files[k] = base \o <<"_">> \o UtcStamp(clock') \o <<"_">> \o Pad2(c)
                                   \o <<"_">> \o Pad2(q) \o ext]_vars

\* C17 as stated: two different variations of a run never get the same
\* outputFile, whatever OUTPUT_BASE_NAME and the clock, and so never write
\* their first image to the same file.
C17_OutputFilesDiffer ==
    /\ \A i, j \in EventsOf("build") :
           (trace[i].index # trace[j].index /\ Len(trace[i].detail) = 2
                /\ Len(trace[j].detail) = 2)
               => trace[i].detail[2] # trace[j].detail[2]
    /\ \A i, j \in EventsOf("save") :
           (trace[i].index # trace[j].index /\ trace[i].detail # <<>>
                /\ trace[j].detail # <<>>)
               => trace[i].detail[1] # trace[j].detail[1]

\* C18 as stated: from the build of a config until the next build replaces it,
\* its files.referenceImages, files.targetImage and payloadOrderHint.images
\* keep their values.
C18_ConfigNeverMutated ==
    [][(config # NoCall /\ pc # "loop") =>
        /\ config'.files.referenceImages = config.files.referenceImages
        /\ config'.files.targetImage = config.files.targetImage
        /\ config'.payloadOrderHint.images = config.payloadOrderHint.images]_vars

\* C20: whenever a generate_content call is made, for 1, 2 or 3 configured
\* reference names, the images in the content sent are payloadOrderHint.images
\* of the variation's config as it stands then, in the same order, and the last
\* of them is the target.
C20_ImagesSentFollowPayloadOrder ==
    [][requests' # requests =>
        LET sent == requests'[Len(requests')].images
        IN  /\ Len(settings.REFERENCE_IMAGE_NAMES) \in {1, 2, 3}
            /\ sent = config.payloadOrderHint.images
            /\ sent # <<>>
            /\ sent[Len(sent)] = config.files.targetImage
            /\ sent[Len(sent)] = settings.REFERENCE_IMAGE_NAMES[1]]_vars

\* a request made with a single configured name: the target alone is sent
C20_Witness ==
    /\ requests # <<>>
    /\ Len(settings.REFERENCE_IMAGE_NAMES) = 1
    /\ requests[1].images = <<settings.REFERENCE_IMAGE_NAMES[1]>>
    /\ config.payloadOrderHint.images = requests[1].images

----------------------------------------------------------------------------
(* Claims about the interpolation of generate_temperature_schedule *)

\* the bounds the interpolation runs between
LowerBound ==
    LET lower == IF sArgs.minimum > TEMPERATURE_LOW THEN sArgs.minimum ELSE TEMPERATURE_LOW
        upper == IF sArgs.maximum < TEMPERATURE_HIGH THEN sArgs.maximum ELSE TEMPERATURE_HIGH
        both == IF sArgs.base > TEMPERATURE_HIGH THEN TEMPERATURE_HIGH
                ELSE IF sArgs.base < TEMPERATURE_LOW THEN TEMPERATURE_LOW ELSE sArgs.base
    IN  IF lower > upper THEN both ELSE lower

UpperBound ==
    LET lower == IF sArgs.minimum > TEMPERATURE_LOW THEN sArgs.minimum ELSE TEMPERATURE_LOW
        upper == IF sArgs.maximum < TEMPERATURE_HIGH THEN sArgs.maximum ELSE TEMPERATURE_HIGH
    IN  IF lower > upper THEN LowerBound ELSE upper

\* v is num/den rounded to 4 decimals
IsRounded(v, num, den) ==
    /\ v % 10 = 0
    /\ 2 * (v * den - num) <= 10 * den
    /\ 2 * (num - v * den) <= 10 * den

\* the schedule is the count evenly spaced points from lower to upper, each
\* rounded to 4 decimals
EvenlySpaced ==
    LET count == sArgs.count
    IN  /\ Len(sResult.schedule) = count
        /\ \A i \in 1..count :
               IsRounded(sResult.schedule[i],
                         LowerBound * (count - 1) + (UpperBound - LowerBound) * (i - 1),
                         count - 1)
        /\ IsRounded(sResult.schedule[1], LowerBound, 1)
        /\ IsRounded(sResult.schedule[count], UpperBound, 1)

\* C19 as stated: for count >= 2 the schedule is count copies of lower when
\* upper <= lower, and otherwise the count evenly spaced points from lower to
\* upper, each rounded to 4 decimals.
C19_CopiesOfLowerOrEvenlySpaced ==
    (ReturnedSchedule /\ sArgs.count >= 2) =>
        IF UpperBound <= LowerBound
        THEN sResult.schedule = [i \in 1..sArgs.count |-> LowerBound]
        ELSE EvenlySpaced

\* C19 amended: for count >= 2 the schedule is count copies of lower rounded
\* to 4 decimals when upper <= lower, and otherwise the count evenly spaced
\* points from lower to upper, each rounded to 4 decimals.
C19_RoundedCopiesOrEvenlySpaced ==
    (ReturnedSchedule /\ sArgs.count >= 2) =>
        IF UpperBound <= LowerBound
        THEN /\ Len(sResult.schedule) = sArgs.count
             /\ IsRounded(sResult.schedule[1], LowerBound, 1)
             /\ \A i \in 1..sArgs.count : sResult.schedule[i] = sResult.schedule[1]
        ELSE EvenlySpaced

\* four points from 0.20 to 0.35
C19_Witness ==
    /\ ReturnedSchedule
    /\ sArgs.count = 4
    /\ LowerBound = 20000 /\ UpperBound = 35000
    /\ sResult.schedule = <<20000, 25000, 30000, 35000>>

====
